---------------------------- MODULE Spec2Model ----------------------------
(***************************************************************************)
(* Model of weather_download.py: the month enumerator, get_end_date, the   *)
(* Open-Meteo client adapter, the response normaliser process_data and the *)
(* driver main() with its monthly aggregation and CSV output.              *)
(***************************************************************************)
EXTENDS Integers, Sequences, FiniteSets, TLC

VARIABLES
    call,          \* last direct call of a pure function: [fn, args, result]
    pandasLegacy,  \* TRUE: pandas < 1.4 (date_range knows `closed`, not `inclusive`)
    csv,           \* the registry file AREAS_CSV as found on disk
    upstream,      \* what the archive service (behind cache and retry) answers per request
    failures,      \* number of failures the environment has injected so far
    files,         \* OUTPUT_DIR: file name -> file content
    files1,        \* OUTPUT_DIR as the first run of main() left it
    wfail,         \* months whose write raised in the current run
    wfail1,        \* months whose write raised in the first run
    run,           \* "first" or "second" invocation of main()
    pc,            \* position of main()
    areas,         \* main: the loaded registry
    mi,            \* main: index into daterange_month(START_YEAR, END_YEAR)
    idx,           \* main: index of the current registry row
    request,       \* the parameters of the last request sent upstream
    resp,          \* main: `response`, the result of fetch_open_meteo_data
    df,            \* main: result of process_data
    monthly_data,  \* main: list of the month's tables
    log,           \* last message printed
    fetches,       \* number of calls of fetch_open_meteo_data in this run
    procs,         \* number of calls of process_data in this run
    delays,        \* number of time.sleep(1) in this run
    decisions      \* number of write-or-skip decisions in this run

vars == <<call, pandasLegacy, csv, upstream, failures, files, files1, wfail, wfail1,
          run, pc, areas, mi, idx, request, resp, df, monthly_data, log,
          fetches, procs, delays, decisions>>

mainVars == <<csv, upstream, failures, files, files1, wfail, wfail1,
              run, pc, areas, mi, idx, request, resp, df, monthly_data, log,
              fetches, procs, delays, decisions>>

-----------------------------------------------------------------------------
(* Configuration *)

START_YEAR == 2024
END_YEAR == 2024

OPENMETEO_HOURLY_VARIABLES ==
    <<"temperature_2m", "relative_humidity_2m", "precipitation",
      "rain", "snowfall", "windspeed_10m", "winddirection_10m">>

(* Bounds of the model *)

MinYear == 1896         \* years tried with get_end_date: MinYear..MaxYear
MaxYear == 2104
RangeFirstYear == 2022  \* years tried with daterange_month
RangeLastYear == 2026
MaxAreas == 2           \* rows of the registry
MaxFailures == 2        \* failures injected into one execution
FaultWindow == 2        \* failures are injected in the last FaultWindow months
MaxStart == 1           \* hourly.Time() in 0..MaxStart
MaxEnd == 4             \* hourly.TimeEnd() in 0..MaxEnd
MaxInterval == 2        \* hourly.Interval() in 0..MaxInterval
MaxLen == 3             \* values carried by one variable: 0..MaxLen

None == [none |-> TRUE]

-----------------------------------------------------------------------------
(* Month enumerator and get_end_date *)

RECURSIVE months_of_year(_, _)
\* inner loop of daterange_month: for month in range(1, 13) starting at `month`
months_of_year(year, month) ==
    IF month >= 13 THEN <<>>
    ELSE <<(<<year, month>>)>> \o months_of_year(year, month + 1)

RECURSIVE daterange_from(_, _)
\* outer loop of daterange_month: for year in range(year, end_year + 1)
daterange_from(year, end_year) ==
    IF year >= end_year + 1 THEN <<>>
    ELSE months_of_year(year, 1) \o daterange_from(year + 1, end_year)

\* a bug: range(1, 12) instead of range(1, 13)
RECURSIVE months_short(_, _)
months_short(year, month) ==
    IF month >= 12 THEN <<>>
    ELSE <<(<<year, month>>)>> \o months_short(year, month + 1)

RECURSIVE daterange_month_short(_, _)
daterange_month_short(start_year, end_year) ==
    IF start_year >= end_year + 1 THEN <<>>
    ELSE months_short(start_year, 1) \o daterange_month_short(start_year + 1, end_year)

\* the sequence the generator daterange_month yields
daterange_month(start_year, end_year) == daterange_from(start_year, end_year)

\* calendar.isleap
isleap(year) == year % 4 = 0 /\ (year % 100 # 0 \/ year % 400 = 0)

\* calendar.mdays
mdays == <<31, 28, 31, 30, 31, 30, 31, 31, 30, 31, 30, 31>>

\* calendar.monthrange(year, month)[1]: the number of days of the month
monthrange_ndays(year, month) ==
    mdays[month] + (IF month = 2 /\ isleap(year) THEN 1 ELSE 0)

datetime(year, month, day) == [year |-> year, month |-> month, day |-> day]

\* a bug: the month length taken from the table alone, leap years forgotten
get_end_date_noleap(year, month) == datetime(year, month, mdays[month])

get_end_date(year, month) ==
    LET last_day == monthrange_ndays(year, month)
    IN  datetime(year, month, last_day)

-----------------------------------------------------------------------------
(* Response normaliser *)

Ok(v) == [ok |-> TRUE, val |-> v, exc |-> "none"]
Raise(e) == [ok |-> FALSE, val |-> None, exc |-> e]

\* a bug: both end points kept (inclusive='both')
date_range_both(start, end, freq) ==
    IF freq = 0 THEN Raise("ValueError")
    ELSE LET n == IF end < start THEN 0 ELSE ((end - start) \div freq) + 1
         IN  Ok([k \in 1..n |-> start + (k - 1) * freq])

\* pd.date_range(start, end, freq, inclusive='left') for freq >= 0: the evenly
\* spaced points from start up to end, then the points equal to end dropped
date_range(start, end, freq) ==
    IF freq = 0 THEN Raise("ValueError")
    ELSE LET n == IF end < start THEN 0 ELSE ((end - start) \div freq) + 1
             closed == [k \in 1..n |-> start + (k - 1) * freq]
         IN  Ok(SelectSeq(closed, LAMBDA t : t # end))

\* lines 81-95: `inclusive` first, `closed` when that raises TypeError
times_of(hourly) ==
    LET start_timestamp == hourly.Time
        end_timestamp == hourly.TimeEnd
        interval_seconds == hourly.Interval
        first == IF pandasLegacy THEN Raise("TypeError")
                 ELSE date_range(start_timestamp, end_timestamp, interval_seconds)
    IN  IF ~first.ok /\ first.exc = "TypeError"
        THEN IF pandasLegacy
             THEN date_range(start_timestamp, end_timestamp, interval_seconds)
             ELSE Raise("TypeError")
        ELSE first

\* hourly.Variables(j).ValuesAsNumpy(); Variables(j) is None past the last variable
ValuesAsNumpy(hourly, j) ==
    IF j + 1 \in DOMAIN hourly.variables
    THEN Ok(hourly.variables[j + 1])
    ELSE Raise("AttributeError")

\* pd.DataFrame({...}) of lines 107-116 followed by df['area'] = area
DataFrame(times, v, area) ==
    IF \E j \in 1..7 : Len(v[j]) # Len(times)
    THEN Raise("ValueError")
    ELSE Ok([columns |-> <<"time", "temperature_2m", "relative_humidity_2m",
                           "precipitation", "rain", "snowfall", "windspeed_10m",
                           "winddirection_10m", "area">>,
             rows |-> [k \in 1..Len(times) |->
                          <<times[k], v[1][k], v[2][k], v[3][k], v[4][k],
                            v[5][k], v[6][k], v[7][k], area>>]])

\* the try block of process_data, lines 62-121
process_body(area, response) ==
    LET hourly == response.hourly
    IN  IF hourly = None THEN Raise("AttributeError")
        ELSE LET times == times_of(hourly)
                 vals == [j \in 1..7 |-> ValuesAsNumpy(hourly, j - 1)]
             IN  IF ~times.ok THEN times
                 ELSE IF \E j \in 1..7 : ~vals[j].ok THEN Raise("AttributeError")
                 ELSE DataFrame(times.val, [j \in 1..7 |-> vals[j].val], area)

Msg(text, area, year, month) ==
    [msg |-> text, area |-> area, year |-> year, month |-> month]

\* a bug: no except clause around the extraction
process_data_unguarded(area, year, month, response) ==
    IF response = None
    THEN [ret |-> None, raised |-> FALSE,
          out |-> <<Msg("no data for area", area, year, month)>>]
    ELSE LET r == process_body(area, response)
         IN  [ret |-> r.val, raised |-> ~r.ok,
              out |-> <<Msg("processing", area, year, month)>>]

process_data(area, year, month, response) ==
    IF response = None
    THEN [ret |-> None, raised |-> FALSE,
          out |-> <<Msg("no data for area", area, year, month)>>]
    ELSE LET r == process_body(area, response)
         IN  IF r.ok
             THEN [ret |-> r.val, raised |-> FALSE,
                   out |-> <<Msg("processing", area, year, month)>>]
             ELSE [ret |-> None, raised |-> FALSE,
                   out |-> <<Msg("processing", area, year, month),
                             Msg("processing error", area, year, month)>>]

-----------------------------------------------------------------------------
(* Environment: the registry file and the archive service *)

\* one row of the registry file; without the expected header the columns
\* carry other names
CsvRow(i, hasColumns) ==
    IF hasColumns
    THEN [area |-> i, latitude |-> 340 + i, longitude |-> (0 - 1180) - i]
    ELSE [name |-> i, lat |-> 340 + i, lon |-> (0 - 1180) - i]

CsvHeader(hasColumns) ==
    IF hasColumns THEN {"area", "latitude", "longitude"} ELSE {"name", "lat", "lon"}

\* the registry file: missing or unparseable, or a header and n rows
CsvFiles ==
    {[readable |-> FALSE, columns |-> {}, rows |-> <<>>]}
    \cup {[readable |-> TRUE, columns |-> CsvHeader(h),
           rows |-> [i \in 1..n |-> CsvRow(i, h)]] :
             n \in 0..MaxAreas, h \in BOOLEAN}

\* pd.read_csv(AREAS_CSV)
read_csv(file) ==
    IF file.readable
    THEN Ok([columns |-> file.columns, rows |-> file.rows])
    ELSE Raise("Exception")

\* date.strftime('%Y-%m-%d'): the year and two digits each for month and day
strftime(d) == <<d.year, d.month \div 10, d.month % 10, d.day \div 10, d.day % 10>>

\* first instant of the requested window, in days
WindowStart(params) ==
    (params.start_date[1] * 12 + params.start_date[2] * 10 + params.start_date[3]) * 100

WindowDays(params) ==
    (params.end_date[4] * 10 + params.end_date[5])
    - (params.start_date[4] * 10 + params.start_date[5]) + 1

\* the hourly block the service holds for a request: the window from its first
\* day, at a coarse location-dependent interval, variable j carrying j*10 + k
Hourly(params, extra) ==
    LET s == WindowStart(params)
        e == s + WindowDays(params)
        iv == 15 + (params.latitude % 2)
        n == ((e - 1 - s) \div iv) + 1
    IN  [Time |-> s, TimeEnd |-> e, Interval |-> iv,
         variables |-> [j \in 1..7 |->
                           [k \in 1..(IF j = 1 THEN n + extra ELSE n) |-> j * 10 + k]]]

\* what openmeteo_client.weather_api(url, params) can do for a request the
\* service answers well ("good"), with a malformed block ("bad"), or not at
\* all ("null": an empty result or an exception)
Answers(params, tag) ==
    IF tag = "good"
    THEN {[kind |-> "responses", list |-> <<[hourly |-> Hourly(params, 0)]>>]}
    ELSE IF tag = "bad"
    THEN {[kind |-> "responses", list |-> <<[hourly |-> Hourly(params, 1)]>>]}
    ELSE {[kind |-> "responses", list |-> <<>>],
          [kind |-> "TypeError", list |-> <<>>],
          [kind |-> "Exception", list |-> <<>>]}

\* the request signature the cache and the service go by
Signature(params) ==
    <<params.latitude, params.longitude, params.start_date, params.end_date>>

-----------------------------------------------------------------------------
(* Weather client adapter *)

Params(lat, lon, start_date, end_date) ==
    [latitude |-> lat, longitude |-> lon,
     start_date |-> strftime(start_date), end_date |-> strftime(end_date),
     hourly |-> OPENMETEO_HOURLY_VARIABLES, timezone |-> "auto"]

\* a bug: only TypeError is caught
fetch_only_typeerror(lat, lon, start_date, end_date, answer) ==
    IF answer.kind = "responses"
    THEN IF answer.list = <<>>
         THEN [ret |-> None, raised |-> FALSE, out |-> [msg |-> "no response"]]
         ELSE [ret |-> answer.list[1], raised |-> FALSE, out |-> None]
    ELSE IF answer.kind = "TypeError"
    THEN [ret |-> None, raised |-> FALSE, out |-> [msg |-> "fetch TypeError"]]
    ELSE [ret |-> None, raised |-> TRUE, out |-> None]

\* `answer` is what weather_api does for the request
fetch_open_meteo_data(lat, lon, start_date, end_date, answer) ==
    IF answer.kind = "responses"
    THEN IF answer.list = <<>>
         THEN [ret |-> None, raised |-> FALSE, out |-> [msg |-> "no response"]]
         ELSE [ret |-> answer.list[1], raised |-> FALSE, out |-> None]
    ELSE IF answer.kind = "TypeError"
    THEN [ret |-> None, raised |-> FALSE, out |-> [msg |-> "fetch TypeError"]]
    ELSE [ret |-> None, raised |-> FALSE, out |-> [msg |-> "fetch error"]]

-----------------------------------------------------------------------------
(* Monthly aggregation and output *)

\* a bug: None appended like a table
accumulate_always(monthly, table) == Append(monthly, table)

\* lines 161-162
accumulate(monthly, table) ==
    IF table # None THEN Append(monthly, table) ELSE monthly

\* line 168: `if monthly_data:`
has_data(monthly) == monthly # <<>>

RECURSIVE concat_rows(_)
concat_rows(dfs) ==
    IF dfs = <<>> THEN <<>> ELSE Head(dfs).rows \o concat_rows(Tail(dfs))

\* a bug: the tables joined last to first
RECURSIVE concat_rows_reversed(_)
concat_rows_reversed(dfs) ==
    IF dfs = <<>> THEN <<>> ELSE concat_rows_reversed(Tail(dfs)) \o Head(dfs).rows

concat_reversed(dfs) ==
    LET objs == SelectSeq(dfs, LAMBDA d : d # None)
    IN  IF objs = <<>> THEN Raise("ValueError")
        ELSE Ok([columns |-> Head(objs).columns, rows |-> concat_rows_reversed(objs)])

\* pd.concat(monthly_data, ignore_index=True) of tables with the same columns:
\* None entries are dropped, nothing left to join raises ValueError
concat(dfs) ==
    LET objs == SelectSeq(dfs, LAMBDA d : d # None)
    IN  IF objs = <<>> THEN Raise("ValueError")
        ELSE Ok([columns |-> Head(objs).columns, rows |-> concat_rows(objs)])

\* f'open_meteo_{year}_{month:02d}.csv' under OUTPUT_DIR
Filepath(year, month) ==
    <<"weather_data", "open_meteo", year, month \div 10, month % 10, "csv">>

\* a bug: the file opened with mode='a'
to_csv_append(dir, filepath, table) ==
    [f \in DOMAIN dir \cup {filepath} |->
        IF f # filepath THEN dir[f]
        ELSE IF f \in DOMAIN dir
        THEN [header |-> dir[f].header,
              lines |-> dir[f].lines \o <<table.columns>> \o table.rows]
        ELSE [header |-> table.columns, lines |-> table.rows]]

\* combined_df.to_csv(filepath, index=False): the file created or replaced
to_csv(dir, filepath, table) ==
    [f \in DOMAIN dir \cup {filepath} |->
        IF f = filepath THEN [header |-> table.columns, lines |-> table.rows]
        ELSE dir[f]]

-----------------------------------------------------------------------------
(* Driver *)

Months == daterange_month(START_YEAR, END_YEAR)
Year == Months[mi][1]
Month == Months[mi][2]
Row == areas.rows[idx]
Last(out) == out[Len(out)]

\* the environment may still make something fail
FaultsAllowed == failures < MaxFailures /\ mi > Len(Months) - FaultWindow

InitMain ==
    /\ csv \in CsvFiles
    /\ upstream = <<>>
    /\ failures = 0
    /\ files = <<>>
    /\ files1 = <<>>
    /\ wfail = {}
    /\ wfail1 = {}
    /\ run = "first"
    /\ pc = "load"
    /\ areas = None
    /\ mi = 0
    /\ idx = 0
    /\ request = None
    /\ resp = None
    /\ df = None
    /\ monthly_data = <<>>
    /\ log = None
    /\ fetches = 0
    /\ procs = 0
    /\ delays = 0
    /\ decisions = 0

\* lines 140-144
LoadRegistry ==
    /\ pc = "load"
    /\ LET r == read_csv(csv)
       IN  IF r.ok
           THEN /\ areas' = r.val
                /\ pc' = "month"
                /\ log' = log
           ELSE /\ areas' = areas
                /\ pc' = "aborted"
                /\ log' = [msg |-> "registry error"]
    /\ UNCHANGED <<call, pandasLegacy, csv, upstream, failures, files, files1, wfail,
                   wfail1, run, mi, idx, request, resp, df, monthly_data,
                   fetches, procs, delays, decisions>>

\* lines 147-152: the next month of the generator, or the end of main
BeginMonth ==
    /\ pc = "month"
    /\ IF mi < Len(Months)
       THEN /\ mi' = mi + 1
            /\ monthly_data' = <<>>
            /\ log' = [msg |-> "month", year |-> Months[mi + 1][1],
                       month |-> Months[mi + 1][2]]
            /\ IF Len(areas.rows) >= 1
               THEN idx' = 1 /\ pc' = "fetch"
               ELSE idx' = idx /\ pc' = "write"
       ELSE /\ pc' = "done"
            /\ UNCHANGED <<mi, monthly_data, log, idx>>
    /\ UNCHANGED <<call, pandasLegacy, csv, upstream, failures, files, files1, wfail,
                   wfail1, run, areas, request, resp, df,
                   fetches, procs, delays, decisions>>

\* lines 153-159: the row's fields, the month window, the fetch
Fetch ==
    /\ pc = "fetch"
    /\ IF ~({"area", "latitude", "longitude"} \subseteq DOMAIN Row)  \* KeyError
       THEN /\ pc' = "crashed"
            /\ log' = [msg |-> "uncaught KeyError"]
            /\ UNCHANGED <<upstream, failures, request, resp, fetches>>
       ELSE LET lat == Row.latitude
                lon == Row.longitude
                start_date == datetime(Year, Month, 1)
                end_date == get_end_date(Year, Month)
                params == Params(lat, lon, start_date, end_date)
                sig == Signature(params)
                known == sig \in DOMAIN upstream
            IN  \E tag \in IF known THEN {upstream[sig]}
                           ELSE IF FaultsAllowed THEN {"good", "bad", "null"}
                           ELSE {"good"} :
                \E answer \in Answers(params, tag) :
                  LET r == fetch_open_meteo_data(lat, lon, start_date, end_date, answer)
                  IN  /\ request' = params
                      /\ fetches' = fetches + 1
                      /\ upstream' = [q \in DOMAIN upstream \cup {sig} |->
                                         IF q = sig THEN tag ELSE upstream[q]]
                      /\ failures' = IF ~known /\ tag # "good"
                                     THEN failures + 1 ELSE failures
                      /\ IF r.raised
                         THEN /\ pc' = "crashed"
                              /\ log' = [msg |-> "uncaught exception"]
                              /\ resp' = resp
                         ELSE /\ pc' = "process"
                              /\ resp' = r.ret
                              /\ log' = IF r.out = None
                                        THEN Msg("fetching", Row.area, Year, Month)
                                        ELSE r.out
    /\ UNCHANGED <<call, pandasLegacy, csv, files, files1, wfail, wfail1, run, areas,
                   mi, idx, df, monthly_data, procs, delays, decisions>>

\* lines 160-162
Process ==
    /\ pc = "process"
    /\ LET r == process_data(Row.area, Year, Month, resp)
       IN  /\ procs' = procs + 1
           /\ IF r.raised
              THEN /\ pc' = "crashed"
                   /\ log' = [msg |-> "uncaught exception"]
                   /\ UNCHANGED <<df, monthly_data>>
              ELSE /\ pc' = "sleep"
                   /\ log' = Last(r.out)
                   /\ df' = r.ret
                   /\ monthly_data' = accumulate(monthly_data, r.ret)
    /\ UNCHANGED <<call, pandasLegacy, csv, upstream, failures, files, files1, wfail,
                   wfail1, run, areas, mi, idx, request, resp,
                   fetches, delays, decisions>>

\* a bug: the pause taken only after an area that produced a table
Sleep_if_data ==
    /\ pc = "sleep"
    /\ delays' = IF df # None THEN delays + 1 ELSE delays
    /\ IF idx < Len(areas.rows)
       THEN idx' = idx + 1 /\ pc' = "fetch"
       ELSE idx' = idx /\ pc' = "write"
    /\ UNCHANGED <<call, pandasLegacy, csv, upstream, failures, files, files1, wfail,
                   wfail1, run, areas, mi, request, resp, df, monthly_data, log,
                   fetches, procs, decisions>>

\* line 165, then the next row or the end of the inner loop
Sleep ==
    /\ pc = "sleep"
    /\ delays' = delays + 1
    /\ IF idx < Len(areas.rows)
       THEN idx' = idx + 1 /\ pc' = "fetch"
       ELSE idx' = idx /\ pc' = "write"
    /\ UNCHANGED <<call, pandasLegacy, csv, upstream, failures, files, files1, wfail,
                   wfail1, run, areas, mi, request, resp, df, monthly_data, log,
                   fetches, procs, decisions>>

\* lines 168-179; a failing write leaves the directory as it was
WriteMonth ==
    /\ pc = "write"
    /\ decisions' = decisions + 1
    /\ pc' = "month"
    /\ IF has_data(monthly_data)
       THEN \E io \in {"ok"} \cup (IF FaultsAllowed THEN {"OSError"} ELSE {}) :
              LET combined_df == concat(monthly_data)
                  filepath == Filepath(Year, Month)
              IN  IF ~combined_df.ok
                  THEN /\ io = "ok"
                       /\ log' = [msg |-> "write error", year |-> Year, month |-> Month]
                       /\ UNCHANGED <<files, wfail, failures>>
                  ELSE IF io = "ok"
                  THEN /\ files' = to_csv(files, filepath, combined_df.val)
                       /\ log' = [msg |-> "saved", year |-> Year, month |-> Month]
                       /\ UNCHANGED <<wfail, failures>>
                  ELSE /\ files' = files
                       /\ log' = [msg |-> "write error", year |-> Year, month |-> Month]
                       /\ wfail' = wfail \cup {mi}
                       /\ failures' = failures + 1
       ELSE /\ log' = [msg |-> "no data for month", year |-> Year, month |-> Month]
            /\ UNCHANGED <<files, wfail, failures>>
    /\ UNCHANGED <<call, pandasLegacy, csv, upstream, files1, wfail1, run, areas, mi,
                   idx, request, resp, df, monthly_data, fetches, procs, delays>>

\* lines 181-182, a second time: a new process, the same disk and service
Rerun ==
    /\ pc \in {"done", "aborted", "crashed"}
    /\ run = "first"
    /\ run' = "second"
    /\ files1' = files
    /\ wfail1' = wfail
    /\ wfail' = {}
    /\ pc' = "load"
    /\ areas' = None
    /\ mi' = 0
    /\ idx' = 0
    /\ request' = None
    /\ resp' = None
    /\ df' = None
    /\ monthly_data' = <<>>
    /\ log' = None
    /\ fetches' = 0
    /\ procs' = 0
    /\ delays' = 0
    /\ decisions' = 0
    /\ UNCHANGED <<call, pandasLegacy, csv, upstream, failures, files>>

MainStep == LoadRegistry \/ BeginMonth \/ Fetch \/ Process \/ Sleep \/ WriteMonth

\* main() under a current pandas; both pandas generations are tried on
\* process_data directly (InitNorm)
Init ==
    /\ InitMain
    /\ call = [fn |-> "none"]
    /\ pandasLegacy = FALSE

\* one run of main()
Next == MainStep

Spec == Init /\ [][Next]_vars

\* main() run, and then run once more
NextTwice == MainStep \/ Rerun

SpecTwice == Init /\ [][NextTwice]_vars

-----------------------------------------------------------------------------
(* Direct calls of the pure functions *)

InitDates ==
    /\ InitMain
    /\ csv = [readable |-> FALSE, columns |-> {}, rows |-> <<>>]
    /\ call = [fn |-> "none"]
    /\ pandasLegacy = FALSE

InitNorm ==
    /\ InitMain
    /\ csv = [readable |-> FALSE, columns |-> {}, rows |-> <<>>]
    /\ call = [fn |-> "none"]
    /\ pandasLegacy \in BOOLEAN

CallDaterangeMonth ==
    /\ call.fn = "none"
    /\ \E start_year \in RangeFirstYear..RangeLastYear,
          end_year \in RangeFirstYear..RangeLastYear :
         call' = [fn |-> "daterange_month", args |-> <<start_year, end_year>>,
                  result |-> daterange_month(start_year, end_year)]
    /\ UNCHANGED pandasLegacy
    /\ UNCHANGED mainVars

CallGetEndDate ==
    /\ call.fn = "none"
    /\ \E year \in MinYear..MaxYear, month \in 1..12 :
         call' = [fn |-> "get_end_date", args |-> <<year, month>>,
                  result |-> get_end_date(year, month)]
    /\ UNCHANGED pandasLegacy
    /\ UNCHANGED mainVars

\* an hourly block of `nvars` variables of `len` values each, variable `odd`
\* (if any) of `oddlen` values
Block(s, e, iv, nvars, len, odd, oddlen) ==
    [Time |-> s, TimeEnd |-> e, Interval |-> iv,
     variables |-> [j \in 1..nvars |->
                       [k \in 1..(IF j = odd THEN oddlen ELSE len) |-> j * 10 + k]]]

Responses ==
    {None, [hourly |-> None]}
    \cup {[hourly |-> Block(s, e, iv, nvars, len, odd, oddlen)] :
             s \in 0..MaxStart, e \in 0..MaxEnd, iv \in 0..MaxInterval,
             nvars \in {6, 7, 8}, len \in 0..MaxLen, odd \in 0..7,
             oddlen \in 0..MaxLen}

CallProcessData ==
    /\ call.fn = "none"
    /\ \E area \in {1, 2}, month \in {1, 12}, response \in Responses :
         call' = [fn |-> "process_data",
                  args |-> <<area, START_YEAR, month, response>>,
                  result |-> process_data(area, START_YEAR, month, response)]
    /\ UNCHANGED pandasLegacy
    /\ UNCHANGED mainVars

NextDates == CallDaterangeMonth \/ CallGetEndDate

SpecDates == InitDates /\ [][NextDates]_vars

NextNorm == CallProcessData

SpecNorm == InitNorm /\ [][NextNorm]_vars

-----------------------------------------------------------------------------
(* Properties of the pure functions *)

\* the Gregorian month length, as a table of cases
GregorianLength(year, month) ==
    CASE month \in {1, 3, 5, 7, 8, 10, 12} -> 31
      [] month \in {4, 6, 9, 11} -> 30
      [] month = 2 /\ year % 4 = 0 /\ (year % 100 # 0 \/ year % 400 = 0) -> 29
      [] OTHER -> 28

\* C5: for Y1 <= Y2, daterange_month(Y1, Y2) yields 12*(Y2-Y1+1) pairs, every
\* (year, month) with Y1 <= year <= Y2 and 1 <= month <= 12 exactly once, in
\* strictly ascending order, year first and then month.
C5_MonthEnumeration ==
    (call.fn = "daterange_month" /\ call.args[1] <= call.args[2]) =>
        LET Y1 == call.args[1]
            Y2 == call.args[2]
            r == call.result
        IN  /\ Len(r) = 12 * (Y2 - Y1 + 1)
            /\ \A y \in Y1..Y2, m \in 1..12 :
                   Cardinality({k \in DOMAIN r : r[k] = <<y, m>>}) = 1
            /\ \A k \in 1..(Len(r) - 1) :
                   \/ r[k][1] < r[k + 1][1]
                   \/ r[k][1] = r[k + 1][1] /\ r[k][2] < r[k + 1][2]

C5_Witness ==
    /\ call.fn = "daterange_month"
    /\ call.args[1] < call.args[2]
    /\ Len(call.result) = 24
    /\ call.result[13] = <<call.args[2], 1>>

\* C6: get_end_date(year, month) is a date of the same year and month whose
\* day is the Gregorian length of the month, February having 29 days exactly
\* in the years divisible by 4 and not by 100, or divisible by 400.
C6_EndDateIsMonthLength ==
    call.fn = "get_end_date" =>
        /\ call.result.year = call.args[1]
        /\ call.result.month = call.args[2]
        /\ call.result.day = GregorianLength(call.args[1], call.args[2])

C6_Witness ==
    /\ call.fn = "get_end_date"
    /\ call.args = <<2024, 2>>
    /\ call.result = [year |-> 2024, month |-> 2, day |-> 29]

\* the number of k >= 0 with s + k*i < e
Steps(s, e, i) == Cardinality({k \in 0..(MaxEnd + 1) : s + k * i < e})

\* C7: a response whose hourly block has start s, end e, interval i > 0 and
\* seven variables of N values each, N the number of k >= 0 with s + k*i < e,
\* becomes a table of N rows and the nine columns time, the seven variables in
\* the requested order, area: row k holds s + k*i, the k-th value of each
\* variable under that variable's name, and the supplied area label.
C7_NormalisedTable ==
    (/\ call.fn = "process_data"
     /\ call.args[4] # None
     /\ call.args[4].hourly # None
     /\ call.args[4].hourly.Interval > 0
     /\ Len(call.args[4].hourly.variables) >= 7
     /\ \A j \in 1..7 :
            Len(call.args[4].hourly.variables[j])
              = Steps(call.args[4].hourly.Time, call.args[4].hourly.TimeEnd,
                      call.args[4].hourly.Interval)) =>
        LET h == call.args[4].hourly
            N == Steps(h.Time, h.TimeEnd, h.Interval)
            t == call.result.ret
        IN  /\ t # None
            /\ t.columns = <<"time">> \o OPENMETEO_HOURLY_VARIABLES \o <<"area">>
            /\ Len(t.columns) = 9
            /\ Len(t.rows) = N
            /\ \A k \in 1..N :
                   /\ Len(t.rows[k]) = 9
                   /\ t.rows[k][1] = h.Time + (k - 1) * h.Interval
                   /\ \A j \in 1..7 : t.rows[k][j + 1] = h.variables[j][k]
                   /\ t.rows[k][9] = call.args[1]

C7_Witness ==
    /\ call.fn = "process_data"
    /\ call.args[4] # None
    /\ call.args[4].hourly # None
    /\ call.args[4].hourly.Time = 1
    /\ call.args[4].hourly.TimeEnd = 4
    /\ call.args[4].hourly.Interval = 1
    /\ call.result.ret # None
    /\ Len(call.result.ret.rows) = 3
    /\ call.result.ret.rows[3][1] = 3

\* a step of the extraction or shaping of this response fails
Unshapeable(response) ==
    \/ response.hourly = None
    \/ response.hourly.Interval = 0
    \/ Len(response.hourly.variables) < 7
    \/ \E j \in 1..7 :
           Len(response.hourly.variables[j])
             # Steps(response.hourly.Time, response.hourly.TimeEnd,
                     response.hourly.Interval)

\* C8: process_data never raises; it returns null for a null response, and for
\* a response a step fails on (a variable whose length differs from the number
\* of timestamps included) it reports the error with area, year and month and
\* returns null; it returns a table only when every step succeeded.
C8_NeverRaises ==
    call.fn = "process_data" =>
        LET area == call.args[1]
            year == call.args[2]
            month == call.args[3]
            response == call.args[4]
            r == call.result
        IN  /\ ~r.raised
            /\ response = None => r.ret = None
            /\ (response # None /\ Unshapeable(response)) =>
                   /\ r.ret = None
                   /\ Last(r.out) = Msg("processing error", area, year, month)
            /\ r.ret # None => (response # None /\ ~Unshapeable(response))

C8_Witness ==
    /\ call.fn = "process_data"
    /\ call.args[4] # None
    /\ call.args[4].hourly # None
    /\ call.args[4].hourly.Interval = 1
    /\ Len(call.args[4].hourly.variables) = 7
    /\ Len(call.args[4].hourly.variables[1]) = 2
    /\ Len(call.args[4].hourly.variables[5]) = 3
    /\ call.result.ret = None
    /\ ~call.result.raised
    /\ Last(call.result.out).msg = "processing error"

-----------------------------------------------------------------------------
(* Properties of the driver *)

RequiredColumns == {"area", "latitude", "longitude"}

\* the registry was read and is a table with the required columns
RegistryLoaded == areas # None /\ RequiredColumns \subseteq areas.columns

\* the registry cannot be read, or is not a table with the required columns
RegistryFailure == ~csv.readable \/ ~(RequiredColumns \subseteq csv.columns)

MonthCount == 12 * (END_YEAR - START_YEAR + 1)

\* the request signature of registry row i for the month (y, m)
SigOf(i, y, m) ==
    <<csv.rows[i].latitude, csv.rows[i].longitude,
      <<y, m \div 10, m % 10, 0, 1>>,
      <<y, m \div 10, m % 10, GregorianLength(y, m) \div 10, GregorianLength(y, m) % 10>>>>

\* row i yielded a table for the month (y, m)
Yielded(i, y, m) ==
    SigOf(i, y, m) \in DOMAIN upstream /\ upstream[SigOf(i, y, m)] = "good"

MonthFirst(y, m) == (y * 12 + m) * 100
MonthEnd(y, m) == MonthFirst(y, m) + GregorianLength(y, m)

\* the number of rows the service holds for row i and month (y, m): one per
\* interval begun within the month
AreaCount(i, y, m) ==
    ((GregorianLength(y, m) - 1) \div (15 + (csv.rows[i].latitude % 2))) + 1

\* the rows the service holds for row i and month (y, m), as table rows
AreaRows(i, y, m) ==
    LET iv == 15 + (csv.rows[i].latitude % 2)
    IN  [k \in 1..AreaCount(i, y, m) |->
            <<MonthFirst(y, m) + (k - 1) * iv, 10 + k, 20 + k, 30 + k, 40 + k,
              50 + k, 60 + k, 70 + k, csv.rows[i].area>>]

RECURSIVE ExpectedRows(_, _, _)
\* the tables of the rows i.. that yielded one, joined in registry order
ExpectedRows(i, y, m) ==
    IF i > Len(csv.rows) THEN <<>>
    ELSE (IF Yielded(i, y, m) THEN AreaRows(i, y, m) ELSE <<>>)
         \o ExpectedRows(i + 1, y, m)

RECURSIVE ExpectedCount(_, _, _)
ExpectedCount(i, y, m) ==
    IF i > Len(csv.rows) THEN 0
    ELSE (IF Yielded(i, y, m) THEN AreaCount(i, y, m) ELSE 0)
         + ExpectedCount(i + 1, y, m)

RunComplete ==
    /\ pc = "done"
    /\ fetches = MonthCount * Len(areas.rows)
    /\ procs = MonthCount * Len(areas.rows)
    /\ decisions = MonthCount

\* how far main() has come: every step of it adds one
Progress ==
    mi + fetches + procs + delays + decisions + (IF pc = "done" THEN 1 ELSE 0)

\* C1: once the registry is loaded, main() processes every area of every month
\* and reaches its end, whatever the fetches, the normalisations and the
\* writes do on the way: no exception leaves main(), main() has a next step
\* wherever it has not ended, every step brings it nearer to the end (the
\* progress is bounded), and at the end everything was processed.
C1_RunsToCompletion ==
    /\ [](RegistryLoaded =>
            /\ pc # "crashed"
            /\ pc # "done" => ENABLED MainStep
            /\ pc = "done" => RunComplete
            /\ Progress <= MonthCount * (3 * Len(areas.rows) + 2) + 1)
    /\ [][(RegistryLoaded /\ run' = run) => Progress' = Progress + 1]_vars

C1_Witness ==
    /\ RegistryLoaded
    /\ RunComplete
    /\ Len(areas.rows) = 2
    /\ wfail # {}
    /\ \E q \in DOMAIN upstream : upstream[q] = "null"

\* C2: when the registry cannot be read or is not a table with the columns
\* area, latitude, longitude, main() stops at the load with the error
\* reported: no fetch, no delay, no output file.
C2_AbortsOnRegistryFailure ==
    RegistryFailure =>
        /\ pc \in {"load", "aborted"}
        /\ pc = "aborted" => log = [msg |-> "registry error"]
        /\ fetches = 0
        /\ delays = 0
        /\ files = <<>>

\* what does hold on a registry failure: nothing is fetched, slept or written
RegistryFailureIsQuiet ==
    RegistryFailure => (fetches = 0 /\ delays = 0 /\ files = <<>>)

\* C3: the file of a month holds exactly the tables of the areas whose fetch
\* and normalisation succeeded for that month, joined in registry order: the
\* row count is the sum of theirs, and every row lies in that month. (Looked
\* at after each write-or-skip decision and at the end of main: the directory
\* changes nowhere else.)
C3_MonthlyFileIsConcatenation ==
    pc \in {"month", "done"} =>
    \A y \in START_YEAR..END_YEAR, m \in 1..12 :
        Filepath(y, m) \in DOMAIN files =>
            LET f == files[Filepath(y, m)]
            IN  /\ \A i \in 1..Len(csv.rows) : SigOf(i, y, m) \in DOMAIN upstream
                /\ f.header = <<"time">> \o OPENMETEO_HOURLY_VARIABLES \o <<"area">>
                /\ f.lines = ExpectedRows(1, y, m)
                /\ Len(f.lines) = ExpectedCount(1, y, m)
                /\ \A k \in 1..Len(f.lines) :
                       /\ f.lines[k][1] >= MonthFirst(y, m)
                       /\ f.lines[k][1] < MonthEnd(y, m)

C3_Witness ==
    /\ pc = "done"
    /\ Len(csv.rows) = 2
    /\ Filepath(END_YEAR, 11) \in DOMAIN files
    /\ Filepath(END_YEAR, 12) \in DOMAIN files
    /\ ~Yielded(1, END_YEAR, 11)
    /\ Yielded(2, END_YEAR, 11)
    /\ Len(files[Filepath(END_YEAR, 11)].lines) = 2
    /\ Len(files[Filepath(END_YEAR, 12)].lines) = 5

\* C4: in a month in which no area produced a table the writer is not called:
\* the directory stays as it is, the driver reports that the month has no data
\* and goes on to the next month.
NoTableThisMonth ==
    \A i \in 1..Len(areas.rows) : ~Yielded(i, Year, Month)

C4_EmptyMonthIsSkipped ==
    [][(pc = "write" /\ NoTableThisMonth) =>
          /\ files' = files
          /\ pc' = "month"
          /\ mi' = mi
          /\ log' = [msg |-> "no data for month", year |-> Year, month |-> Month]]_vars

C4_Witness ==
    /\ pc = "month"
    /\ mi = Len(Months)
    /\ Len(areas.rows) = 2
    /\ log = [msg |-> "no data for month", year |-> END_YEAR, month |-> 12]
    /\ Filepath(END_YEAR, 12) \notin DOMAIN files
    /\ Filepath(END_YEAR, 11) \in DOMAIN files

\* C9 as stated: a second run against the same registry and the same upstream
\* answers leaves the same files with the same content.
C9_SecondRunSameFiles ==
    (run = "second" /\ pc = "done") => files = files1

\* C9 as amended: ... provided each month's write has the same outcome in both
\* runs.
C9_SecondRunSameFilesGivenSameWrites ==
    (run = "second" /\ pc = "done" /\ wfail = wfail1) => files = files1

C9_Witness ==
    /\ run = "second"
    /\ pc = "done"
    /\ wfail = wfail1
    /\ wfail # {}
    /\ Len(csv.rows) = 2
    /\ Filepath(END_YEAR, 1) \in DOMAIN files
    /\ Filepath(END_YEAR, 12) \notin DOMAIN files
    /\ files = files1

\* the parameters of the request for the current row and month
WindowRequest ==
    [latitude |-> Row.latitude, longitude |-> Row.longitude,
     start_date |-> <<Year, Month \div 10, Month % 10, 0, 1>>,
     end_date |-> <<Year, Month \div 10, Month % 10,
                    GregorianLength(Year, Month) \div 10,
                    GregorianLength(Year, Month) % 10>>,
     hourly |-> OPENMETEO_HOURLY_VARIABLES, timezone |-> "auto"]

\* C10: months are visited in ascending order; in a month each registry row in
\* turn is fetched once for the window of that month, its result normalised,
\* and one delay taken whatever the outcome; the write-or-skip decision of a
\* month follows its last delay and precedes the next month's first fetch; so
\* fetches and delays both total 12*(END_YEAR-START_YEAR+1) times the rows.
C10_EventOrder ==
    (RegistryLoaded /\ pc \notin {"load", "aborted"}) =>
        LET n == Len(areas.rows)
            before == (mi - 1) * n + (idx - 1)
        IN  /\ mi >= 1 => Year * 12 + (Month - 1) = START_YEAR * 12 + (mi - 1)
            /\ pc # "crashed"
            /\ pc = "month" =>
                   /\ fetches = mi * n /\ procs = mi * n /\ delays = mi * n
                   /\ decisions = mi
            /\ pc = "fetch" =>
                   /\ fetches = before /\ procs = before /\ delays = before
                   /\ decisions = mi - 1
            /\ pc = "process" =>
                   /\ fetches = before + 1 /\ procs = before /\ delays = before
                   /\ decisions = mi - 1
                   /\ request = WindowRequest
            /\ pc = "sleep" =>
                   /\ fetches = before + 1 /\ procs = before + 1 /\ delays = before
                   /\ decisions = mi - 1
            /\ pc = "write" =>
                   /\ fetches = mi * n /\ procs = mi * n /\ delays = mi * n
                   /\ decisions = mi - 1
            /\ pc = "done" =>
                   /\ mi = MonthCount
                   /\ fetches = MonthCount * n
                   /\ delays = MonthCount * n
                   /\ procs = MonthCount * n
                   /\ decisions = MonthCount

C10_Witness ==
    /\ RegistryLoaded
    /\ pc = "done"
    /\ Len(areas.rows) = 2
    /\ fetches = 24
    /\ delays = 24
    /\ failures = MaxFailures

=============================================================================
